---- MODULE Spec2Model ----
(***************************************************************************)
(* django-migrations-diff: the snapshot store on disk and one run of the   *)
(* DjangoMigrationsDiff object (src/django_migrations_diff/main.py).       *)
(*                                                                         *)
(* Strings are tuples of code points, so that sorted() is the ordering of  *)
(* Python's str and escape_characters / upper() act on characters.         *)
(* A file is its bytes and its modification time; its size is the length   *)
(* of its bytes.  A run of the program is one process with a fresh object; *)
(* compare_snapshots advances from one read of the property `comparison`   *)
(* to the next, and the object's fields, what was printed, the exception   *)
(* that ended the run and every value the property returned are the state. *)
(* The earlier revision of the program, src/main.py, is the program        *)
(* "script": its compare_snapshots is one step.                            *)
(*                                                                         *)
(* Three specifications share the variables: Spec is the comparison over   *)
(* arbitrary stores, SpecStore is every command of run() over small stores *)
(* and projects, SpecVersion is the version check as the clock advances.   *)
(***************************************************************************)
EXTENDS Naturals, Sequences, FiniteSets, TLC

VARIABLES
    store,      \* the snapshots directory: snapshot roots, components, files
    self,       \* the fields of the DjangoMigrationsDiff object of the last run
    out,        \* what the last run printed, one record per print / print_line
    exc,        \* the exception that ended the run: "none", "SystemExit", "NotADirectoryError"
    reads,      \* the values the property `comparison` returned during the run
    pc,         \* where the run is: "idle", "header", "rows", "done", "checked"
    argv,       \* the program run, its command line, the method called and its names
    project,    \* the Django project in the current directory
    now,        \* the clock, in seconds
    last_check_file,    \* last_check.mdiff: the time it holds, if it holds one
    check       \* of this process: what check_new_version read and whether it
                \* asked PyPI, and the number of requests made to PyPI

vars == <<store, self, out, exc, reads, pc, argv, project, now, last_check_file, check>>

\* what is outside the snapshots directory and the object
host == <<project, now, last_check_file, check>>

----------------------------------------------------------------------------
(* Bounds and pools *)

MaxFiles == 3       \* files in the whole snapshots directory
MaxMtime == 2       \* modification times are 1..MaxMtime
MaxNow == 180000    \* the clock stops here

dev == <<100, 101, 118>>
master == <<109, 97, 115, 116, 101, 114>>
orders == <<111, 114, 100, 101, 114, 115>>
users == <<117, 115, 101, 114, 115>>
f0001 == <<48, 48, 48, 49>>
f0002 == <<48, 48, 48, 50>>

\* self.empty = '---'
empty == <<45, 45, 45>>

SnapPool == {dev, master}
AppPool == {orders, users}
FilePool == {f0001, f0002, empty}
Contents == {<<1>>, <<2>>, <<1, 1>>}
FileVals == [content : Contents, mtime : 1..MaxMtime]
NoFile == [content |-> <<>>, mtime |-> 0]
Kinds == {"absent", "file", "dir"}

----------------------------------------------------------------------------
(* Strings *)

Min(a, b) == IF a <= b THEN a ELSE b

\* Python's str ordering: by code point, a proper prefix first
StrLess(a, b) ==
    \/ \E i \in 1..Min(Len(a), Len(b)) :
          /\ \A j \in 1..(i - 1) : a[j] = b[j]
          /\ a[i] < b[i]
    \/ /\ Len(a) < Len(b)
       /\ \A j \in 1..Len(a) : a[j] = b[j]

RECURSIVE SortedSeq(_)
\* sorted(S) of a set of strings
SortedSeq(S) ==
    IF S = {} THEN <<>>
    ELSE LET m == CHOOSE x \in S : \A y \in S \ {x} : StrLess(x, y)
         IN <<m>> \o SortedSeq(S \ {m})

Reverse(s) == [i \in 1..Len(s) |-> s[Len(s) + 1 - i]]

\* str.upper() on ASCII letters
Upper(s) == [i \in 1..Len(s) |-> IF s[i] >= 97 /\ s[i] <= 122 THEN s[i] - 32 ELSE s[i]]

\* escape_characters: value.replace('/', '-')
escape_characters(value) == [i \in 1..Len(value) |-> IF value[i] = 47 THEN 45 ELSE value[i]]

\* self.app_title = 'APPLICATION'
app_title == <<65, 80, 80, 76, 73, 67, 65, 84, 73, 79, 78>>

----------------------------------------------------------------------------
(* The snapshots directory *)

\* faulty variant: the existence of the snapshots directory is tested
snapshot_exists_parent(st, name) == TRUE

\* snapshot_dir.exists() for snapshots_dir / name
snapshot_exists(st, name) == name \in st.snaps

\* (snapshots_dir / name / app).exists()
path_exists(st, name, app) ==
    /\ name \in st.snaps
    /\ app \in AppPool
    /\ st.kind[<<name, app>>] # "absent"

is_dir(st, name, app) == path_exists(st, name, app) /\ st.kind[<<name, app>>] = "dir"

\* set(os.listdir(snapshot_dir)): every entry of the snapshot root
listdir_root(st, name) == {a \in AppPool : st.kind[<<name, a>>] # "absent"}

\* the names in a component directory
dirnames(st, name, app) == {f \in FilePool : st.file[<<name, app, f>>] # NoFile}

\* os.listdir(dir): the names in the order the file system gives them, which
\* is arbitrary; order "asc" or "desc" is the order of this call
listdir(st, name, app, order) ==
    IF order = "asc" THEN SortedSeq(dirnames(st, name, app))
    ELSE Reverse(SortedSeq(dirnames(st, name, app)))

----------------------------------------------------------------------------
(* filecmp, as called by dircmp(a_dir, b_dir) with its defaults *)

\* filecmp.DEFAULT_IGNORES and the hidden names os.curdir, os.pardir
DEFAULT_IGNORES ==
    { <<82, 67, 83>>, <<67, 86, 83>>, <<116, 97, 103, 115>>, <<46, 103, 105, 116>>,
      <<46, 104, 103>>, <<46, 98, 122, 114>>, <<95, 100, 97, 114, 99, 115>>,
      <<95, 95, 112, 121, 99, 97, 99, 104, 101, 95, 95>>, <<46>>, <<46, 46>> }

\* _sig(os.stat(f)) without the type: every file of a component is regular
sig(f) == <<Len(f.content), f.mtime>>

\* faulty variant: only the stat signatures are compared
cmp_signature_only(f1, f2) == sig(f1) = sig(f2)

\* filecmp.cmp(f1, f2, shallow=True): TRUE when the files compare the same
cmp(f1, f2) ==
    IF sig(f1) = sig(f2) THEN TRUE
    ELSE IF Len(f1.content) # Len(f2.content) THEN FALSE
    ELSE f1.content = f2.content

\* dircmp.left_list / right_list: sorted, the ignored and hidden names dropped
dircmp_list(st, name, app) == dirnames(st, name, app) \ DEFAULT_IGNORES

\* dircmp(a_dir, b_dir).left_only
left_only(st, a, b, app) ==
    SortedSeq(dircmp_list(st, a, app) \ dircmp_list(st, b, app))

\* dircmp(a_dir, b_dir).right_only
right_only(st, a, b, app) ==
    SortedSeq(dircmp_list(st, b, app) \ dircmp_list(st, a, app))

\* dircmp(a_dir, b_dir).diff_files
diff_files(st, a, b, app) ==
    SortedSeq({f \in dircmp_list(st, a, app) \cap dircmp_list(st, b, app) :
                 ~cmp(st.file[<<a, app, f>>], st.file[<<b, app, f>>])})

----------------------------------------------------------------------------
(* The object.  None is kept apart from the empty dict, set and tuple; the  *)
(* properties test `if not self._x`, which is true of both.                *)

\* __init__
NewSelf ==
    [ names |-> <<>>,
      _comparison |-> [none |-> TRUE, d |-> <<>>],
      _apps |-> [none |-> TRUE, s |-> {}],
      _spacing |-> [none |-> TRUE, t |-> <<>>],
      _number_only |-> FALSE,
      _snapshots_dir |-> FALSE,       \* FALSE is None, TRUE the path
      _last_check_file |-> FALSE ]    \* FALSE is None, TRUE the path

\* the object together with the run: printed lines, the pending exception,
\* the values returned by `comparison`
NewRun == [self |-> NewSelf, out |-> <<>>, exc |-> "none", reads |-> <<>>]

\* one printed item
Line(kind, vals, wraps, n) == [kind |-> kind, vals |-> vals, wraps |-> wraps, n |-> n]

\* self._comparison[app].append(entry) on a defaultdict(list), which keeps
\* its keys in insertion order
dict_append(d, app, entry) ==
    IF \E i \in 1..Len(d) : d[i].app = app
    THEN [i \in 1..Len(d) |->
            IF d[i].app = app THEN [d[i] EXCEPT !.files = Append(@, entry)] ELSE d[i]]
    ELSE Append(d, [app |-> app, files |-> <<entry>>])

\* faulty variant: self._comparison[app] is touched before the loop over the names,
\* so the defaultdict makes the key even when nothing is appended
dict_extend_touch(d, app, entries) ==
    IF \E i \in 1..Len(d) : d[i].app = app
    THEN [i \in 1..Len(d) |->
            IF d[i].app = app THEN [d[i] EXCEPT !.files = @ \o entries] ELSE d[i]]
    ELSE Append(d, [app |-> app, files |-> entries])

RECURSIVE dict_extend(_, _, _)
\* the appends of one loop `for filename in ...: self._comparison[app].append(...)`
dict_extend(d, app, entries) ==
    IF entries = <<>> THEN d
    ELSE dict_extend(dict_append(d, app, Head(entries)), app, Tail(entries))

RECURSIVE apps_loop(_, _, _)
\* the loop of the property `apps` from its i-th name on
apps_loop(M, st, i) ==
    IF i > Len(M.self.names) THEN M
    ELSE LET name == M.self.names[i] IN
         IF ~snapshot_exists(st, name)
         THEN [M EXCEPT !.out = Append(@, Line("doesnt_exist", <<name>>, <<>>, 0)),
                        !.exc = "SystemExit",
                        !.self._snapshots_dir = TRUE]
         ELSE apps_loop([M EXCEPT !.self._apps.s = @ \cup listdir_root(st, name),
                                  !.self._snapshots_dir = TRUE], st, i + 1)

\* the property `apps`: the run after reading it
apps(M, st) ==
    IF M.self._apps.none \/ M.self._apps.s = {}
    THEN apps_loop([M EXCEPT !.self._apps = [none |-> FALSE, s |-> {}]], st, 1)
    ELSE M

\* faulty variant: the right-only pair is built as (filename, self.empty)
Pairs_left_first(names, side) ==
    [i \in 1..Len(names) |-> IF side = "both" THEN <<names[i], names[i]>>
                             ELSE <<names[i], empty>>]

\* the pairs appended for a list of names: (name, '---'), ('---', name) or
\* (name, name)
Pairs(names, side) ==
    [i \in 1..Len(names) |-> IF side = "left" THEN <<names[i], empty>>
                             ELSE IF side = "right" THEN <<empty, names[i]>>
                             ELSE <<names[i], names[i]>>]

\* the body of the loop of the property `comparison` for one app
comparison_app(M, st, app, order) ==
    LET a == M.self.names[1]
        b == M.self.names[2]
        fail == [M EXCEPT !.exc = "NotADirectoryError"]
        put(entries) == [M EXCEPT !.self._comparison.d = dict_extend(@, app, entries)]
    IN  IF ~path_exists(st, a, app)
        THEN IF ~is_dir(st, b, app) THEN fail
             ELSE put(Pairs(listdir(st, b, app, order), "right"))
        ELSE IF ~path_exists(st, b, app)
        THEN IF ~is_dir(st, a, app) THEN fail
             ELSE put(Pairs(listdir(st, a, app, order), "left"))
        ELSE IF ~is_dir(st, a, app) \/ ~is_dir(st, b, app) THEN fail
             ELSE put(Pairs(left_only(st, a, b, app), "left")
                      \o Pairs(right_only(st, a, b, app), "right")
                      \o Pairs(diff_files(st, a, b, app), "both"))

RECURSIVE comparison_loop_skipping(_, _, _, _, _)
\* faulty variant: an app whose comparison raises is skipped
comparison_loop_skipping(M, st, todo, i, order) ==
    IF i > Len(todo) THEN M
    ELSE LET R == comparison_app(M, st, todo[i], order)
         IN  comparison_loop_skipping(IF R.exc # "none" THEN M ELSE R, st, todo, i + 1, order)

RECURSIVE comparison_loop(_, _, _, _, _)
\* for app in sorted(self.apps), from the i-th app on; an exception ends it
comparison_loop(M, st, todo, i, order) ==
    IF i > Len(todo) \/ M.exc # "none" THEN M
    ELSE comparison_loop(comparison_app(M, st, todo[i], order), st, todo, i + 1, order)

\* faulty variant: `for app in self.apps`, the order of the set and not sorted()
sorted_apps_unsorted(S) == Reverse(SortedSeq(S))

\* sorted(self.apps) in the property `comparison`
sorted_apps(S) == SortedSeq(S)

\* faulty variant: only None is taken for "not computed yet" and the loop
\* runs on every read, appending to the dict that is there
comparison_rebuilding(M, st, order) ==
    LET ret(R) == [R EXCEPT !.reads = Append(@, R.self._comparison.d)]
    IN  IF M.exc # "none" THEN M
        ELSE LET M1 == IF M.self._comparison.none
                       THEN [M EXCEPT !.self._comparison = [none |-> FALSE, d |-> <<>>]]
                       ELSE M
                 M2 == apps(M1, st)
                 M3 == IF M2.exc # "none" THEN M2
                       ELSE comparison_loop(M2, st, sorted_apps(M2.self._apps.s), 1, order)
             IN IF M3.exc # "none" THEN M3 ELSE ret(M3)

\* the property `comparison`: the run after reading it; the value returned
\* is logged in reads
comparison(M, st, order) ==
    LET ret(R) == [R EXCEPT !.reads = Append(@, R.self._comparison.d)]
    IN  IF M.exc # "none" THEN M
        ELSE IF ~M.self._comparison.none /\ M.self._comparison.d # <<>> THEN ret(M)
        ELSE LET M1 == [M EXCEPT !.self._comparison = [none |-> FALSE, d |-> <<>>]]
                 M2 == apps(M1, st)
                 M3 == IF M2.exc # "none" THEN M2
                       ELSE comparison_loop(M2, st, sorted_apps(M2.self._apps.s), 1, order)
             IN IF M3.exc # "none" THEN M3 ELSE ret(M3)

Max(S) == CHOOSE x \in S : \A y \in S : y <= x

\* every pair of filenames of a report
Entries(d) == UNION {{d[i].files[j] : j \in 1..Len(d[i].files)} : i \in 1..Len(d)}

\* the property `spacing`: the run after reading it
spacing(M, st, order) ==
    IF M.exc # "none" THEN M
    ELSE IF ~M.self._spacing.none /\ M.self._spacing.t # <<>> THEN M
    ELSE LET M1 == comparison(M, st, order)
             d == M1.self._comparison.d
             max_app == Max({Len(app_title)} \cup {Len(d[i].app) : i \in 1..Len(d)})
             max_name_1 == Max({Len(M1.self.names[1])} \cup {Len(e[1]) : e \in Entries(d)})
             max_name_2 == Max({Len(M1.self.names[2])} \cup {Len(e[2]) : e \in Entries(d)})
         IN  IF M1.exc # "none" THEN M1
             ELSE [M1 EXCEPT !.self._spacing =
                      [none |-> FALSE, t |-> <<max_app + 1, max_name_1 + 1, max_name_2 + 1>>]]

\* the sort key of compare_snapshots: x[0] if x[0] != self.empty else x[1]
sort_key(x) == IF x[1] # empty THEN x[1] ELSE x[2]

\* faulty variant: the pairs are printed in the order the report keeps them
sorted_files_unsorted(files) == files

RECURSIVE sorted_files(_)
\* sorted(files, key=...): stable, ascending by key
sorted_files(files) ==
    IF files = <<>> THEN <<>>
    ELSE LET rest == sorted_files(SubSeq(files, 1, Len(files) - 1))
             x == files[Len(files)]
             k == Cardinality({i \in 1..Len(rest) : ~StrLess(sort_key(x), sort_key(rest[i]))})
         IN  SubSeq(rest, 1, k) \o <<x>> \o SubSeq(rest, k + 1, Len(rest))

\* the wraps of one row: app name unwrapped, same names yellow, else the
\* absent side red and the present side green
row_wraps(filenames) ==
    IF filenames[1] = filenames[2] THEN <<"None", "y", "y">>
    ELSE <<"None">> \o [i \in 1..2 |-> IF filenames[i] = empty THEN "r" ELSE "g"]

\* the print_line calls of the inner loop of compare_snapshots for one app:
\* the sorted pairs, the app name on the first row only
print_rows(app, rows) ==
    [index \in 1..Len(rows) |->
        Line("row", <<IF index > 1 THEN <<>> ELSE app>> \o rows[index],
             row_wraps(rows[index]), 0)]

RECURSIVE print_apps(_, _)
\* the print_line calls of the outer loop over self.comparison.items() from
\* the i-th item on: a border, then the rows of the app
print_apps(items, i) ==
    IF i > Len(items) THEN <<>>
    ELSE <<Line("mid", <<>>, <<>>, 0)>>
         \o print_rows(items[i].app, sorted_files(items[i].files))
         \o print_apps(items, i + 1)

\* faulty variant: compare_snapshots without its test of len(self.names)
compare_snapshots_any(M, st, names, order) ==
    LET M0 == [M EXCEPT !.self.names = [i \in 1..Len(names) |-> escape_characters(names[i])]]
        M1 == comparison(M0, st, order)
    IN  IF M1.exc # "none" THEN M1
        ELSE IF M.self._number_only
        THEN [M1 EXCEPT !.out = Append(@, Line("number", <<>>, <<>>,
                                               Len(M1.self._comparison.d)))]
        ELSE IF M1.self._comparison.d = <<>>
        THEN [M1 EXCEPT !.out = Append(@, Line("equal", M1.self.names, <<>>, 0))]
        ELSE M1

\* compare_snapshots(*names) up to its first read of self.comparison and the
\* branch taken on it
compare_snapshots(M, st, names, order) ==
    LET M0 == [M EXCEPT !.self.names = [i \in 1..Len(names) |-> escape_characters(names[i])]]
        M1 == comparison(M0, st, order)
    IN  IF Len(names) > 2
        THEN [M0 EXCEPT !.out = Append(@, Line("only_2", <<>>, <<>>, 0))]
        ELSE IF M1.exc # "none" THEN M1
        ELSE IF M.self._number_only
        THEN [M1 EXCEPT !.out = Append(@, Line("number", <<>>, <<>>,
                                               Len(M1.self._comparison.d)))]
        ELSE IF M1.self._comparison.d = <<>>
        THEN [M1 EXCEPT !.out = Append(@, Line("equal", M1.self.names, <<>>, 0))]
        ELSE M1

\* the first two print_line calls of compare_snapshots: the first reads
\* self.spacing, which is computed from self.comparison
print_header(M, st, order) ==
    LET M1 == spacing(M, st, order)
    IN  IF M1.exc # "none" THEN M1
        ELSE [M1 EXCEPT !.out = @ \o
                 <<Line("top", <<>>, <<>>, 0),
                   Line("row", <<app_title, Upper(M1.self.names[1]), Upper(M1.self.names[2])>>,
                        <<"B", "B", "B">>, 0)>>]

\* the loop of compare_snapshots over self.comparison.items() and the last
\* print_line
print_body(M, st, order) ==
    LET M1 == comparison(M, st, order)
    IN  IF M1.exc # "none" THEN M1
        ELSE [M1 EXCEPT !.out = @ \o print_apps(M1.self._comparison.d, 1)
                                  \o <<Line("bottom", <<>>, <<>>, 0)>>]

----------------------------------------------------------------------------
(* create_snapshot, remove_snapshots, show_all_snapshots: the methods that  *)
(* read and change the snapshots directory.  Each gives the run and the     *)
(* snapshots directory after it.  The Django project in the current         *)
(* directory is, for each app, the names of the files in its directory      *)
(* `migrations` (none when the app has no such directory).                  *)

init_py == <<95, 95, 105, 110, 105, 116, 95, 95, 46, 112, 121>>

\* the words of the command line
number_flag == <<45, 45, 110, 117, 109, 98, 101, 114>>
help == <<104, 101, 108, 112>>
helper == <<104, 101, 108, 112, 101, 114>>
list == <<108, 105, 115, 116>>
rm == <<114, 109>>
all == <<97, 108, 108>>
dash_v == <<45, 118>>
dash_version == <<45, 45, 118, 101, 114, 115, 105, 111, 110>>

\* the snapshots directory right after mkdir
EmptyStore ==
    [ snaps |-> {},
      kind |-> [c \in SnapPool \X AppPool |-> "absent"],
      file |-> [x \in SnapPool \X AppPool \X FilePool |-> NoFile] ]

\* shutil.rmtree(snapshots_dir / name)
rmtree(st, name) ==
    [ snaps |-> st.snaps \ {name},
      kind |-> [c \in DOMAIN st.kind |-> IF c[1] = name THEN "absent" ELSE st.kind[c]],
      file |-> [x \in DOMAIN st.file |-> IF x[1] = name THEN NoFile ELSE st.file[x]] ]

\* create_snapshot_dir(name): the old snapshot is removed, the new directory
\* made; created is False when there was an old one
create_snapshot_dir(st, name) ==
    [ store |-> [rmtree(st, name) EXCEPT !.snaps = @ \cup {name}],
      created |-> ~snapshot_exists(st, name) ]

\* create_app_migrations_dir and the copy loop for one root of os.walk: the
\* directory of the app is made and every file but __init__.py copied, the
\* copies written at time t
copy_app(st, proj, name, app, t) ==
    [ st EXCEPT !.kind[<<name, app>>] = "dir",
                !.file = [x \in DOMAIN st.file |->
                            IF x[1] = name /\ x[2] = app /\ x[3] \in proj[app] \ {init_py}
                            THEN [content |-> <<1>>, mtime |-> t]
                            ELSE st.file[x]] ]

RECURSIVE walk(_, _, _, _, _, _)
\* the loop of create_snapshot over os.walk(self.current_dir), from the i-th
\* root named `migrations` on: a root without files is passed over, the
\* first root with files makes the snapshot directory
walk(R, proj, name, roots, i, t) ==
    IF i > Len(roots) THEN R
    ELSE IF proj[roots[i]] = {} THEN walk(R, proj, name, roots, i + 1, t)
    ELSE LET made == IF R.new_snapshot_dir THEN [store |-> R.store, created |-> R.created]
                     ELSE create_snapshot_dir(R.store, name)
         IN  walk([ store |-> copy_app(made.store, proj, name, roots[i], t),
                    new_snapshot_dir |-> TRUE,
                    created |-> made.created,
                    total_apps |-> R.total_apps + 1,
                    total_files |-> R.total_files
                                    + Cardinality(proj[roots[i]] \ {init_py}) ],
                  proj, name, roots, i + 1, t)

\* create_snapshot(name)
create_snapshot(M, st, proj, given, order, t) ==
    LET name == escape_characters(given)
        roots == IF order = "asc" THEN SortedSeq(AppPool) ELSE Reverse(SortedSeq(AppPool))
        R == walk([ store |-> st, new_snapshot_dir |-> FALSE, created |-> FALSE,
                    total_apps |-> 0, total_files |-> 0 ],
                  proj, name, roots, 1, t)
    IN  [ store |-> R.store,
          run |-> [M EXCEPT !.self._snapshots_dir = @ \/ R.new_snapshot_dir,
                            !.out = @ \o
                     IF R.total_files = 0 THEN <<Line("cant_find", <<>>, <<>>, 0)>>
                     ELSE << Line(IF R.created THEN "created" ELSE "updated", <<name>>, <<>>, 0),
                             Line("applications", <<>>, <<>>, R.total_apps),
                             Line("migrations", <<>>, <<>>, R.total_files) >>] ]

\* the number of files os.walk finds under a snapshot
total_files(st, name) ==
    Cardinality({x \in DOMAIN st.file : x[1] = name /\ st.file[x] # NoFile})

\* show_all_snapshots(): the run after it and the value returned; of each
\* line the name and the number of files are kept
show_all_snapshots(M, st, order) ==
    LET snapshots == IF order = "asc" THEN SortedSeq(st.snaps) ELSE Reverse(SortedSeq(st.snaps))
    IN  IF snapshots = <<>>
        THEN [ run |-> [M EXCEPT !.self._snapshots_dir = TRUE,
                                 !.out = Append(@, Line("snapshots_not_found", <<>>, <<>>, 0))],
               ret |-> FALSE ]
        ELSE [ run |-> [M EXCEPT !.self._snapshots_dir = TRUE,
                                 !.out = @
                          \o <<Line("list_header", <<>>, <<>>,
                                    Max({4} \cup {Len(n) : n \in st.snaps}))>>
                          \o [i \in 1..Len(snapshots) |->
                                Line("snapshot", <<snapshots[i]>>, <<>>,
                                     total_files(st, snapshots[i]))]],
               ret |-> TRUE ]

RECURSIVE remove_loop_stopping(_, _, _, _)
\* faulty variant: the loop ends at the first name that is not found
remove_loop_stopping(M, st, names, i) ==
    IF i > Len(names) THEN [run |-> M, store |-> st]
    ELSE IF snapshot_exists(st, names[i])
    THEN remove_loop_stopping(
             [M EXCEPT !.self._snapshots_dir = TRUE,
                       !.out = Append(@, Line("deleted", <<names[i]>>, <<>>, 0))],
             rmtree(st, names[i]), names, i + 1)
    ELSE [ run |-> [M EXCEPT !.self._snapshots_dir = TRUE,
                             !.out = Append(@, Line("not_found", <<names[i]>>, <<>>, 0))],
           store |-> st ]

RECURSIVE remove_loop(_, _, _, _)
\* the loop of remove_snapshots over the escaped names, from the i-th on
remove_loop(M, st, names, i) ==
    IF i > Len(names) THEN [run |-> M, store |-> st]
    ELSE IF snapshot_exists(st, names[i])
    THEN remove_loop([M EXCEPT !.self._snapshots_dir = TRUE,
                               !.out = Append(@, Line("deleted", <<names[i]>>, <<>>, 0))],
                     rmtree(st, names[i]), names, i + 1)
    ELSE remove_loop([M EXCEPT !.self._snapshots_dir = TRUE,
                               !.out = Append(@, Line("not_found", <<names[i]>>, <<>>, 0))],
                     st, names, i + 1)

\* remove_snapshots(*names); key is what input() meets: "enter" or "interrupt"
remove_snapshots(M, st, names, order, key) ==
    IF names = <<>>
    THEN [run |-> [M EXCEPT !.out = Append(@, Line("rm_usage", <<>>, <<>>, 0))], store |-> st]
    ELSE IF names = <<all>>
    THEN LET shown == show_all_snapshots(M, st, order)
             asked == [shown.run EXCEPT !.out = Append(@, Line("remove_all", <<>>, <<>>, 0))]
         IN  IF ~shown.ret THEN [run |-> shown.run, store |-> st]
             ELSE IF key = "interrupt"
             THEN [ run |-> [asked EXCEPT !.out = Append(@, Line("cancelled", <<>>, <<>>, 0)),
                                          !.exc = "SystemExit"],
                    store |-> st ]
             ELSE [ run |-> [asked EXCEPT !.out = Append(@, Line("ok", <<>>, <<>>, 0))],
                    store |-> EmptyStore ]
    ELSE remove_loop([M EXCEPT !.out = Append(@, Line("blank", <<>>, <<>>, 0))],
                     st, [i \in 1..Len(names) |-> escape_characters(names[i])], 1)

----------------------------------------------------------------------------
(* The version check.  A time is a number of seconds; last_check.mdiff      *)
(* holds strftime('%d.%m.%Y %H:%M') of a time, which is the time cut to     *)
(* its minute, or nothing that strptime can read.                           *)

minute == 60
day == 86400

NoCheck == [valid |-> FALSE, at |-> 0]
NoCheckFile == [exists |-> FALSE, valid |-> FALSE, at |-> 0]

\* datetime.strptime(datetime.strftime(t, self.time_format), self.time_format)
strftime(t) == t - (t % minute)

\* timedelta.seconds of the difference b - a of two times, a <= b: the
\* seconds within the day, the days are another attribute
seconds(a, b) == (b - a) % day

\* the version check is due: not (last_check and (now - last_check).seconds < 86400)
due(last_check, t) == ~(last_check.valid /\ seconds(last_check.at, t) < day)

\* the property last_check_file: V is the run, the file and the check of
\* this process.  When the file is missing the property calls
\* self._snapshots_dir.touch(), which raises AttributeError while
\* self._snapshots_dir is None; self._last_check_file is set before that
last_check_file_property(V) ==
    [ V |-> [V EXCEPT !.run.self._last_check_file = TRUE],
      raised |-> /\ ~V.run.self._last_check_file
                 /\ ~V.file.exists
                 /\ ~V.run.self._snapshots_dir ]

\* get_last_check(): V after it and the value returned; every exception is
\* swallowed and None returned
get_last_check(V) ==
    LET P == last_check_file_property(V)
    IN  [ V |-> P.V,
          ret |-> IF ~P.raised /\ V.file.exists /\ V.file.valid
                  THEN [valid |-> TRUE, at |-> V.file.at] ELSE NoCheck ]

\* set_last_check() at time t; every exception is swallowed
set_last_check(V, t) ==
    LET P == last_check_file_property(V)
    IN  IF P.raised THEN P.V
        ELSE [P.V EXCEPT !.file = [exists |-> TRUE, valid |-> TRUE, at |-> strftime(t)]]

\* get_actual_version() when net is what the request meets: "no_requests"
\* (the package is not installed), "fail", "same" or "newer" version
get_actual_version(V, net) ==
    LET asked == [V EXCEPT !.check.requests = IF net # "no_requests" THEN @ + 1 ELSE @]
    IN  IF net = "no_requests"
        THEN [asked EXCEPT !.run.out = Append(@, Line("no_requests", <<>>, <<>>, 0)),
                           !.run.exc = "SystemExit"]
        ELSE IF net = "newer"
        THEN [asked EXCEPT !.run.self._spacing = [none |-> FALSE, t |-> <<61>>],
                           !.run.out = @ \o << Line("top", <<>>, <<>>, 0),
                                               Line("new_version", <<>>, <<"y">>, 0),
                                               Line("pip3_install", <<>>, <<"y">>, 0),
                                               Line("bottom", <<>>, <<>>, 0) >>]
        ELSE asked

\* get_version() at time t
get_version(V, t, net) ==
    LET V1 == [V EXCEPT !.run.out = Append(@, Line("current_version", <<>>, <<>>, 0))]
        V2 == get_actual_version(V1, net)
        V3 == IF net = "fail"
              THEN [V2 EXCEPT !.run.out = Append(@, Line("cant_get_version", <<>>, <<>>, 0))]
              ELSE IF net = "same"
              THEN [V2 EXCEPT !.run.out = Append(@, Line("up_to_date", <<>>, <<>>, 0))]
              ELSE V2
    IN  IF V2.run.exc # "none" THEN V2 ELSE set_last_check(V3, t)

\* check_new_version() at time t
check_new_version(V, t, net) ==
    LET G == get_last_check(V)
        V1 == [G.V EXCEPT !.check.last_check = G.ret]
        V2 == [get_actual_version(V1, net) EXCEPT !.check.queried = (net # "no_requests")]
    IN  IF ~due(G.ret, t) THEN V1
        ELSE IF V2.run.exc # "none" THEN V2
        ELSE set_last_check(V2, t)

----------------------------------------------------------------------------
(* run(): the command line and the method it is dispatched to *)

\* sub in s, for two str
Contains(s, sub) ==
    \E i \in 0..Len(s) : i + Len(sub) <= Len(s) /\ SubSeq(s, i + 1, i + Len(sub)) = sub

\* list.remove(x): the list without the first x
remove(args, x) ==
    LET i == CHOOSE k \in 1..Len(args) : args[k] = x /\ \A j \in 1..(k - 1) : args[j] # x
    IN  SubSeq(args, 1, i - 1) \o SubSeq(args, i + 1, Len(args))

\* run(): the method called for sys.argv[1:] = args, the names passed to it
\* and self._number_only
run(args) ==
    LET number == \E i \in 1..Len(args) : args[i] = number_flag
        rest == IF number THEN remove(args, number_flag) ELSE args
        to(call, names) == [call |-> call, names |-> names, number |-> number]
    IN  IF rest = <<>> THEN to("show_help", <<>>)
        ELSE IF Contains(rest[1], help) THEN to("show_help", <<>>)
        ELSE IF rest[1] = list THEN to("show_all_snapshots", <<>>)
        ELSE IF rest[1] = rm THEN to("remove_snapshots", Tail(rest))
        ELSE IF rest[1] \in {dash_v, dash_version} THEN to("get_version", <<>>)
        ELSE IF Len(rest) = 1 THEN to("create_snapshot", rest)
        ELSE to("compare_snapshots", rest)

----------------------------------------------------------------------------
(* The earlier revision, src/main.py (class MigrationsDiff) *)

all_files == <<65, 108, 108, 32, 102, 105, 108, 101, 115>>
plus == <<43>>
question == <<63>>

\* check_snapshot_exists(snapshot, with_exit=True): self.snapshots is
\* os.listdir(self.snapshots_dir), read by __init__
check_snapshot_exists(M, st, snapshot) ==
    IF M.exc # "none" \/ snapshot \in st.snaps THEN M
    ELSE [M EXCEPT !.out = Append(@, Line("doesnt_exist", <<snapshot>>, <<>>, 0)),
                   !.exc = "SystemExit"]

\* the rows appended for a sequence of names
table_rows(migration, names, src_mark, dst_mark) ==
    [i \in 1..Len(names) |-> Line("row", <<migration, names[i], src_mark, dst_mark>>, <<>>, 0)]

\* the rows appended for the folders only one snapshot has
folder_rows(folders, src_mark, dst_mark) ==
    [i \in 1..Len(folders) |-> Line("row", <<folders[i], all_files, src_mark, dst_mark>>, <<>>, 0)]

RECURSIVE both_rows(_, _, _, _, _)
\* the rows of the loop over both_migrations, from the i-th folder on
both_rows(st, src, dst, todo, i) ==
    IF i > Len(todo) THEN <<>>
    ELSE table_rows(todo[i], left_only(st, src, dst, todo[i]), plus, <<>>)
         \o table_rows(todo[i], right_only(st, src, dst, todo[i]), <<>>, plus)
         \o table_rows(todo[i], diff_files(st, src, dst, todo[i]), question, question)
         \o both_rows(st, src, dst, todo, i + 1)

\* a set in the order its iteration gives, which the language leaves open
iterate(S, order) == IF order = "asc" THEN SortedSeq(S) ELSE Reverse(SortedSeq(S))

\* compare_snapshots(src, dst) of the earlier revision
script_compare_snapshots(M, st, src, dst, order) ==
    LET M1 == check_snapshot_exists(check_snapshot_exists(M, st, src), st, dst)
        src_migrations == listdir_root(st, src)
        dst_migrations == listdir_root(st, dst)
        both_migrations == src_migrations \cap dst_migrations
        rows == folder_rows(iterate(src_migrations \ dst_migrations, order), plus, <<>>)
                \o folder_rows(iterate(dst_migrations \ src_migrations, order), <<>>, plus)
                \o both_rows(st, src, dst, iterate(both_migrations, order), 1)
    IN  IF M1.exc # "none" THEN M1
        ELSE IF \E m \in both_migrations : ~is_dir(st, src, m) \/ ~is_dir(st, dst, m)
        THEN [M1 EXCEPT !.exc = "NotADirectoryError"]
        ELSE IF rows = <<>>
        THEN [M1 EXCEPT !.out = Append(@, Line("equal", <<>>, <<>>, 0))]
        ELSE [M1 EXCEPT !.out = <<Line("header", <<Upper(src), Upper(dst)>>, <<>>, 0)>> \o rows]

\* execute() of the earlier revision for the names given, two or more:
\* two are compared, more end in error_exit('Incorrect input. ...')
script_execute(M, st, names, order) ==
    IF Len(names) = 2 THEN script_compare_snapshots(M, st, names[1], names[2], order)
    ELSE [M EXCEPT !.out = Append(@, Line("incorrect_input", <<>>, <<>>, 0)),
                   !.exc = "SystemExit"]

----------------------------------------------------------------------------
(* The state machine *)

\* the snapshots directory holds at most MaxFiles files; a component without
\* files is absent, an empty directory or (a damaged snapshot) a plain file;
\* a snapshot without components may not exist at all.  Bytes and times are
\* read only by cmp, on two files of one name in one component of the two
\* snapshots: such a pair takes every combination (the file of dev fixed, the
\* file of master free), a file without a partner takes one value.
NoArgv == [prog |-> "none", args |-> <<>>, call |-> "none", names |-> <<>>]

\* a current directory without migrations
NoProject == [app \in AppPool |-> {}]

\* last_check.mdiff written in this minute
Fresh == [exists |-> TRUE, valid |-> TRUE, at |-> 0]

\* check_new_version has not run in this process
NewCheck == [last_check |-> NoCheck, queried |-> FALSE, requests |-> 0]

Slots == SnapPool \X AppPool \X FilePool

OneFile == [content |-> <<1>>, mtime |-> 1]

Init ==
    /\ \E F \in {X \in SUBSET Slots : Cardinality(X) <= MaxFiles} :
       LET paired == {x \in F : x[1] = master /\ <<dev, x[2], x[3]>> \in F}
           used == {<<x[1], x[2]>> : x \in F}
           free == (SnapPool \X AppPool) \ used
       IN  \E fv \in [paired -> FileVals] :
           \E k \in [free -> Kinds] :
           LET kind == [c \in SnapPool \X AppPool |-> IF c \in used THEN "dir" ELSE k[c]]
               void == {s \in SnapPool : \A a \in AppPool : kind[<<s, a>>] = "absent"}
           IN  \E gone \in SUBSET void :
                   store = [ snaps |-> SnapPool \ gone,
                             kind |-> kind,
                             file |-> [x \in Slots |->
                                         IF x \in paired THEN fv[x]
                                         ELSE IF x \in F THEN OneFile ELSE NoFile] ]
    /\ self = NewSelf
    /\ out = <<>>
    /\ exc = "none"
    /\ reads = <<>>
    /\ pc = "idle"
    /\ argv = NoArgv
    /\ project = NoProject
    /\ now = 0
    /\ last_check_file = Fresh
    /\ check = NewCheck

\* the names given to a comparison: two, or more
Args == {<<dev, master>>, <<master, dev>>, <<dev, dev>>, <<dev, master, dev>>}

\* the command lines: the comparisons with and without --number, and a few
\* of every other command
CommandLines ==
    Args \cup {<<number_flag>> \o names : names \in Args}
    \cup { <<>>, <<help>>, <<helper>>, <<list>>, <<list, master>>, <<dash_v>>,
           <<rm>>, <<rm, all>>, <<rm, dev>>, <<rm, master, dev>>, <<rm, dev, dev>>,
           <<dev>>, <<master>>, <<dev, number_flag>> }

Orders == {"asc", "desc"}

\* what the request to PyPI meets
Nets == {"no_requests", "fail", "same", "newer"}

Run == [self |-> self, out |-> out, exc |-> exc, reads |-> reads]

Becomes(M, at) ==
    /\ self' = M.self
    /\ out' = M.out
    /\ exc' = M.exc
    /\ reads' = M.reads
    /\ pc' = at
    /\ UNCHANGED store

\* a process starts: main() builds the object, run() sets _number_only and
\* calls compare_snapshots, which returns, is ended by an exception, or goes
\* on to print the table
CompareSnapshots ==
    /\ pc = "idle"
    /\ \E args \in CommandLines, order \in Orders :
        \E to \in {run(args)} :
            /\ to.call = "compare_snapshots"
            /\ \E M \in {compare_snapshots([NewRun EXCEPT !.self._number_only = to.number],
                                            store, to.names, order)} :
                   Becomes(M, IF /\ Len(to.names) <= 2
                                 /\ M.exc = "none"
                                 /\ ~to.number
                                 /\ M.self._comparison.d # <<>>
                              THEN "header" ELSE "done")
            /\ argv' = [prog |-> "mdiff", args |-> args, call |-> to.call, names |-> to.names]
            /\ UNCHANGED host

\* compare_snapshots prints the top border and the header row
PrintHeader ==
    /\ pc = "header"
    /\ \E order \in Orders :
        \E M \in {print_header(Run, store, order)} :
            Becomes(M, IF M.exc = "none" THEN "rows" ELSE "done") /\ UNCHANGED <<argv, host>>

\* compare_snapshots prints the rows of every app and the bottom border
PrintRows ==
    /\ pc = "rows"
    /\ \E order \in Orders : \E M \in {print_body(Run, store, order)} : Becomes(M, "done")
    /\ UNCHANGED <<argv, host>>

\* main() calls check_new_version() after run() has returned
CheckNewVersion ==
    /\ pc = "done" /\ exc = "none" /\ argv.prog = "mdiff"
    /\ \E V0 \in {[run |-> Run, file |-> last_check_file, check |-> check]} :
       \E net \in IF due(get_last_check(V0).ret, now) THEN Nets ELSE {"unasked"} :
       \E V \in {check_new_version(V0, now, net)} :
            /\ Becomes(V.run, "checked")
            /\ last_check_file' = V.file
            /\ check' = V.check
    /\ UNCHANGED <<argv, project, now>>

\* the process is over, after check_new_version or by an exception: its
\* object and its output are gone, the snapshots directory and
\* last_check.mdiff stay
Exit ==
    /\ \/ pc = "checked"
       \/ pc = "done" /\ (exc # "none" \/ argv.prog = "script")
    /\ Becomes(NewRun, "idle")
    /\ argv' = NoArgv
    /\ check' = NewCheck
    /\ UNCHANGED <<project, now, last_check_file>>

\* a process of the earlier revision: `main.py <src> <dst> ...`
ScriptCompareSnapshots ==
    /\ pc = "idle"
    /\ \E names \in Args, order \in Orders :
        /\ \E M \in {script_execute(NewRun, store, names, order)} : Becomes(M, "done")
        /\ argv' = [prog |-> "script", args |-> names, call |-> "execute", names |-> names]
    /\ UNCHANGED host

Next ==
    CompareSnapshots \/ PrintHeader \/ PrintRows \/ ScriptCompareSnapshots
    \/ CheckNewVersion \/ Exit

Spec == Init /\ [][Next]_vars

----------------------------------------------------------------------------
(* The commands: every method run() dispatches to, over small snapshots    *)
(* directories and projects                                                *)

\* the files a directory `migrations` of the project may hold
Projects == [AppPool -> {{}, {init_py}, {init_py, f0001}}]

\* the snapshots directory: a component is absent, an empty directory or a
\* directory with the file 0001
InitStore ==
    /\ \E F \in SUBSET (SnapPool \X AppPool \X {f0001}) :
       LET used == {<<x[1], x[2]>> : x \in F}
           free == (SnapPool \X AppPool) \ used
       IN  \E k \in [free -> {"absent", "dir"}] :
           LET kind == [c \in SnapPool \X AppPool |-> IF c \in used THEN "dir" ELSE k[c]]
               void == {s \in SnapPool : \A a \in AppPool : kind[<<s, a>>] = "absent"}
           IN  \E gone \in SUBSET void :
                   store = [ snaps |-> SnapPool \ gone,
                             kind |-> kind,
                             file |-> [x \in Slots |-> IF x \in F THEN OneFile ELSE NoFile] ]
    /\ self = NewSelf
    /\ out = <<>>
    /\ exc = "none"
    /\ reads = <<>>
    /\ pc = "idle"
    /\ argv = NoArgv
    /\ project \in Projects
    /\ now = 0
    /\ last_check_file = Fresh
    /\ check = NewCheck

\* run() sets self._number_only and calls the method: the run it starts with
Started(to) == [NewRun EXCEPT !.self._number_only = to.number]

\* the record of the command line args in argv
Called(args) ==
    [prog |-> "mdiff", args |-> args, call |-> run(args).call, names |-> run(args).names]

\* mdiff, mdiff help
ShowHelp ==
    /\ pc = "idle"
    /\ \E args \in CommandLines :
        /\ run(args).call = "show_help"
        /\ Becomes([Started(run(args)) EXCEPT !.out = Append(@, Line("help", <<>>, <<>>, 0))],
                   "done")
        /\ argv' = Called(args)
    /\ UNCHANGED host

\* mdiff list
ShowAllSnapshots ==
    /\ pc = "idle"
    /\ \E args \in CommandLines, order \in Orders :
        /\ run(args).call = "show_all_snapshots"
        /\ \E R \in {show_all_snapshots(Started(run(args)), store, order)} :
               Becomes(R.run, "done")
        /\ argv' = Called(args)
    /\ UNCHANGED host

\* what input() meets
Keys_ == {"enter", "interrupt"}

\* mdiff rm ...
RemoveSnapshots ==
    /\ pc = "idle"
    /\ \E args \in CommandLines, order \in Orders, key \in Keys_ :
        /\ run(args).call = "remove_snapshots"
        /\ \E R \in {remove_snapshots(Started(run(args)), store, run(args).names, order, key)} :
            /\ self' = R.run.self /\ out' = R.run.out /\ exc' = R.run.exc
            /\ reads' = R.run.reads
            /\ store' = R.store
            /\ pc' = "done"
            /\ argv' = Called(args)
    /\ UNCHANGED host

\* mdiff <name>
CreateSnapshot ==
    /\ pc = "idle"
    /\ \E args \in CommandLines, order \in Orders, t \in 1..MaxMtime :
        /\ run(args).call = "create_snapshot"
        /\ \E R \in {create_snapshot(Started(run(args)), store, project, run(args).names[1],
                                      order, t)} :
            /\ self' = R.run.self /\ out' = R.run.out /\ exc' = R.run.exc
            /\ reads' = R.run.reads
            /\ store' = R.store
            /\ pc' = "done"
            /\ argv' = Called(args)
    /\ UNCHANGED host

\* mdiff -v
GetVersion ==
    /\ pc = "idle"
    /\ \E args \in CommandLines, net \in Nets :
        /\ run(args).call = "get_version"
        /\ \E V \in {get_version([run |-> Started(run(args)), file |-> last_check_file,
                                  check |-> check], now, net)} :
            /\ Becomes(V.run, "done")
            /\ last_check_file' = V.file
            /\ check' = V.check
            /\ argv' = Called(args)
    /\ UNCHANGED <<project, now>>

NextStore ==
    CompareSnapshots \/ PrintHeader \/ PrintRows \/ ShowHelp \/ ShowAllSnapshots
    \/ RemoveSnapshots \/ CreateSnapshot \/ GetVersion \/ CheckNewVersion \/ Exit

SpecStore == InitStore /\ [][NextStore]_vars

----------------------------------------------------------------------------
(* The version check over time *)

Steps == {30, 3600, 43200}

\* time passes between two processes: half a minute from a full minute, an
\* hour from the start of a half day, or half a day
Tick ==
    /\ pc = "idle"
    /\ \E d \in Steps :
        /\ now + d <= MaxNow
        /\ d = 30 => now % minute = 0
        /\ d = 3600 => now % 43200 < 3600
        /\ now' = now + d
    /\ UNCHANGED <<store, self, out, exc, reads, pc, argv, project, last_check_file, check>>

\* last_check.mdiff is missing, unreadable, or written at time 0
InitVersion ==
    /\ store = EmptyStore
    /\ self = NewSelf
    /\ out = <<>>
    /\ exc = "none"
    /\ reads = <<>>
    /\ pc = "idle"
    /\ argv = NoArgv
    /\ project = NoProject
    /\ now = 0
    /\ last_check_file \in {NoCheckFile, [exists |-> TRUE, valid |-> FALSE, at |-> 0], Fresh}
    /\ check = NewCheck

NextVersion == ShowHelp \/ ShowAllSnapshots \/ GetVersion \/ CheckNewVersion \/ Tick \/ Exit

SpecVersion == InitVersion /\ [][NextVersion]_vars

----------------------------------------------------------------------------
(* What the claims speak of *)

\* the report the object holds, and the two snapshots compared
Report == self._comparison.d
A == self.names[1]
B == self.names[2]

\* the first read of the property built the report of two snapshots
Built == pc # "idle" /\ exc = "none" /\ Len(self.names) = 2

\* every report seen: the stored one and every value the property returned
Seen == {Report} \cup {reads[i] : i \in 1..Len(reads)}

Keys(d) == {d[i].app : i \in 1..Len(d)}

\* the entries of app in report d, as a sequence (empty when app is no key)
FilesOf(d, app) ==
    IF app \in Keys(d) THEN d[CHOOSE i \in 1..Len(d) : d[i].app = app].files ELSE <<>>

Range(s) == {s[i] : i \in 1..Len(s)}

NoRepeat(s) == \A i, j \in 1..Len(s) : s[i] = s[j] => i = j

\* the bytes of file f of component app in snapshot s
Bytes(s, app, f) == store.file[<<s, app, f>>].content

\* component app is a directory in both snapshots with the same names and
\* the same bytes under every name
SameComponent(app) ==
    /\ is_dir(store, A, app) /\ is_dir(store, B, app)
    /\ dirnames(store, A, app) = dirnames(store, B, app)
    /\ \A f \in dirnames(store, A, app) : Bytes(A, app, f) = Bytes(B, app, f)

Differing(app) ==
    {f \in dirnames(store, A, app) \cap dirnames(store, B, app) :
        Bytes(A, app, f) # Bytes(B, app, f)}

\* C2: for a component that is a directory in both snapshots the entries are
\* exactly (name, SENTINEL) for the names only in the left, (SENTINEL, name)
\* for the names only in the right and (name, name) for the names in both
\* with differing bytes, each once
C2_ExactEntries ==
    Built => \A app \in AppPool :
        is_dir(store, A, app) /\ is_dir(store, B, app) =>
            /\ Range(FilesOf(Report, app)) =
                  {<<f, empty>> : f \in dirnames(store, A, app) \ dirnames(store, B, app)}
                  \cup {<<empty, f>> : f \in dirnames(store, B, app) \ dirnames(store, A, app)}
                  \cup {<<f, f>> : f \in Differing(app)}
            /\ NoRepeat(FilesOf(Report, app))

\* C3: for a name in the same component of both snapshots the report holds
\* (name, name) exactly when the bytes of the two files differ, whatever
\* their sizes and modification times
C3_ContentDecides ==
    Built => \A app \in AppPool :
        is_dir(store, A, app) /\ is_dir(store, B, app) =>
            \A f \in dirnames(store, A, app) \cap dirnames(store, B, app) :
                <<f, f>> \in Range(FilesOf(Report, app)) <=> Bytes(A, app, f) # Bytes(B, app, f)

\* C4: a component that is a directory in one snapshot only gives one entry
\* per file, (filename, SENTINEL) when it is in the left snapshot and
\* (SENTINEL, filename) when it is in the right one, and no (name, name) entry
C4_OneSidedComponent ==
    Built => \A app \in AppPool :
        /\ is_dir(store, A, app) /\ ~path_exists(store, B, app) =>
              /\ Range(FilesOf(Report, app)) = {<<f, empty>> : f \in dirnames(store, A, app)}
              /\ NoRepeat(FilesOf(Report, app))
              /\ \A e \in Range(FilesOf(Report, app)) : e[1] # e[2]
        /\ is_dir(store, B, app) /\ ~path_exists(store, A, app) =>
              /\ Range(FilesOf(Report, app)) = {<<empty, f>> : f \in dirnames(store, B, app)}
              /\ NoRepeat(FilesOf(Report, app))
              /\ \A e \in Range(FilesOf(Report, app)) : e[1] # e[2]

\* the keys of report d come in ascending order of Python's str
Ascending(d) == \A i, j \in 1..Len(d) : i < j => StrLess(d[i].app, d[j].app)

\* the apps of the rows printed, in the order printed (the app name is on the
\* first row of its block only; the header row is wrapped in B)
PrintedApps ==
    LET idx == {i \in 1..Len(out) : /\ out[i].kind = "row"
                                    /\ out[i].wraps[1] = "None"
                                    /\ out[i].vals[1] # <<>>}
        nth[k \in 0..Len(out)] ==
            IF k = 0 THEN <<>>
            ELSE IF k \in idx THEN Append(nth[k - 1], out[k].vals[1]) ELSE nth[k - 1]
    IN  nth[Len(out)]

\* C5: the components of the report are visited in ascending order of name,
\* in every value the property returned and in the rows printed, and they
\* are drawn from the union of the entries of both snapshot roots
C5_AscendingComponents ==
    /\ \A d \in Seen : Ascending(d)
    /\ Built => /\ self._apps.s = listdir_root(store, A) \cup listdir_root(store, B)
                /\ Keys(Report) \subseteq self._apps.s
    /\ pc = "done" /\ Built /\ ~self._number_only /\ Report # <<>> =>
          PrintedApps = [i \in 1..Len(Report) |-> Report[i].app]

\* C5 witness: two components were printed, one that only the left snapshot
\* has and one that only the right snapshot has
C5_Witness ==
    /\ Built /\ pc = "done" /\ Len(PrintedApps) = 2
    /\ \E x, y \in AppPool :
          /\ x # y
          /\ path_exists(store, A, x) /\ ~path_exists(store, B, x)
          /\ path_exists(store, B, y) /\ ~path_exists(store, A, y)

\* the present name of an entry: the left name unless it is the sentinel
PresentName(e) == IF e[1] # empty THEN e[1] ELSE e[2]

\* s is in ascending order of present name
ByPresentName(s) ==
    \A j, k \in 1..Len(s) : j < k => StrLess(PresentName(s[j]), PresentName(s[k]))

\* the rows printed, as the report they show: a row with an app name opens
\* the block of that app, a row without one goes on with the block
Printed ==
    LET body == {i \in 1..Len(out) : out[i].kind = "row" /\ out[i].wraps[1] = "None"}
        nth[k \in 0..Len(out)] ==
            IF k = 0 THEN <<>>
            ELSE IF k \notin body THEN nth[k - 1]
            ELSE IF out[k].vals[1] # <<>>
            THEN Append(nth[k - 1], [app |-> out[k].vals[1],
                                     files |-> <<<<out[k].vals[2], out[k].vals[3]>>>>])
            ELSE [nth[k - 1] EXCEPT ![Len(nth[k - 1])].files =
                      Append(@, <<out[k].vals[2], out[k].vals[3]>>)]
    IN  nth[Len(out)]

TablePrinted == pc = "done" /\ Built /\ ~self._number_only /\ Report # <<>>

\* C6 as claimed: the entry sequence attached to the report under a component
\* is sorted by present name
C6_StoredSorted == \A d \in Seen : \A i \in 1..Len(d) : ByPresentName(d[i].files)

\* C6 amended: the rows printed under a component are its entries in
\* ascending order of present name (the sequence kept in the report is in the
\* order left-only, right-only, differing, or in directory order)
C6_PrintedSorted ==
    TablePrinted =>
        /\ Len(Printed) = Len(Report)
        /\ \A i \in 1..Len(Report) :
              /\ Printed[i].app = Report[i].app
              /\ Len(Printed[i].files) = Len(Report[i].files)
              /\ Range(Printed[i].files) = Range(Report[i].files)
              /\ ByPresentName(Printed[i].files)

\* C6 witness: the report keeps the one-sided entry of 0002 before the
\* content entry of 0001, and the table shows 0001 first
C6_Witness ==
    /\ TablePrinted
    /\ \E i \in 1..Len(Report) :
          /\ Report[i].files = <<<<f0002, empty>>, <<f0001, f0001>>>>
          /\ Printed[i].files = <<<<f0001, f0001>>, <<f0002, empty>>>>

\* the two snapshots exist and hold the same components, each a directory
\* with the same names and the same bytes
IdenticalSnapshots ==
    /\ A \in store.snaps /\ B \in store.snaps
    /\ \A app \in AppPool :
          \/ ~path_exists(store, A, app) /\ ~path_exists(store, B, app)
          \/ SameComponent(app)

ReportOf(names, order) ==
    comparison([NewRun EXCEPT !.self.names = names], store, order).self._comparison.d

Swap(S) == {<<e[2], e[1]>> : e \in S}

\* C8: the report of B with A has the keys of the report of A with B, and
\* under each key the entries of the other report with their positions swapped
C8_SwapSymmetry ==
    Built => \A order \in Orders :
        LET back == ReportOf(<<B, A>>, order)
        IN  /\ Keys(back) = Keys(Report)
            /\ \A app \in Keys(Report) :
                  Range(FilesOf(back, app)) = Swap(Range(FilesOf(Report, app)))

\* C8 witness: the report of two different snapshots holds a left-only and a
\* right-only entry
C8_Witness ==
    /\ Built /\ A # B
    /\ \E x, y \in Entries(Report) :
          /\ x[2] = empty /\ x[1] # empty
          /\ y[1] = empty /\ y[2] # empty

\* the positions of the names given that are no snapshot
Missing == {i \in 1..Len(self.names) : self.names[i] \notin store.snaps}

\* the positions of the names given to the earlier revision that are no snapshot
ScriptMissing == {i \in 1..Len(argv.names) : argv.names[i] \notin store.snaps}

\* C9: when one of the two names is no snapshot the run ends in exit() after
\* one message naming the (first) missing snapshot; no report entry exists,
\* the property returned nothing, no count and no 'are equal' is printed; the
\* earlier revision ends the same way, before it builds its table
C9_MissingSnapshot ==
    /\ pc = "done" /\ Len(self.names) = 2 /\ Missing # {} =>
          /\ exc = "SystemExit"
          /\ out = <<Line("doesnt_exist",
                          <<self.names[CHOOSE i \in Missing : \A j \in Missing : i <= j]>>,
                          <<>>, 0)>>
          /\ Report = <<>>
          /\ reads = <<>>
    /\ argv.prog = "script" /\ Len(argv.names) = 2 /\ ScriptMissing # {} =>
          /\ exc = "SystemExit"
          /\ out = <<Line("doesnt_exist",
                          <<argv.names[CHOOSE i \in ScriptMissing : \A j \in ScriptMissing : i <= j]>>,
                          <<>>, 0)>>

\* C9 witness: the first snapshot exists and has components, the second does
\* not exist, --number was given
C9_Witness ==
    /\ pc = "done" /\ Len(self.names) = 2 /\ Missing = {2}
    /\ listdir_root(store, A) # {}
    /\ self._number_only

\* the entries of the two snapshot roots that are no directories
DamagedApps ==
    {app \in AppPool : \E s \in {A, B} : path_exists(store, s, app) /\ ~is_dir(store, s, app)}

\* C10 as claimed: after a failure part-way the stored comparison holds no
\* entry and nothing is rendered
C10_NothingStored ==
    exc = "NotADirectoryError" => Report = <<>> /\ out = <<>>

\* C10 amended: a component path that is no directory ends the run with the
\* exception: the property returns no report and nothing is printed; the
\* field _comparison keeps the entries of the components before it
C10_AbortsWhole ==
    /\ pc = "done" /\ Len(self.names) = 2 /\ Missing = {} /\ DamagedApps # {} =>
          /\ exc = "NotADirectoryError"
          /\ out = <<>>
          /\ reads = <<>>
          /\ \A k \in Keys(Report) : \A x \in DamagedApps : StrLess(k, x)
          /\ \A app \in AppPool : (\A x \in DamagedApps : StrLess(app, x)) =>
                Range(FilesOf(Report, app)) =
                    Range(FilesOf(ReportOf(self.names, "asc"), app))
    /\ exc = "NotADirectoryError" /\ Len(self.names) = 2 => DamagedApps # {}

\* C10 witness: the run failed on the second component after the first one
\* gave entries, which the field still holds
C10_Witness ==
    /\ pc = "done" /\ exc = "NotADirectoryError"
    /\ Report # <<>>
    /\ out = <<>>

\* C11: no entry of any report has the sentinel on both sides, whatever the
\* names of the files in the snapshots, a file named '---' included
C11_NeverBothSentinel ==
    \A d \in Seen : \A e \in Entries(d) : ~(e[1] = empty /\ e[2] = empty)

\* C12: with more than two names compare_snapshots prints the 'only 2
\* snapshots can be compared' error and returns: no report is built, the
\* properties apps, comparison and spacing are never read, whether the
\* snapshots exist or not and with or without --number; the earlier revision
\* refuses more than two names in execute() and compares nothing
C12_TwoWayOnly ==
    /\ pc = "done" /\ argv.call = "compare_snapshots" /\ Len(argv.names) > 2 =>
          /\ exc = "none"
          /\ out = <<Line("only_2", <<>>, <<>>, 0)>>
          /\ self._comparison.none /\ self._apps.none /\ self._spacing.none
          /\ reads = <<>>
    /\ argv.prog = "script" /\ Len(argv.names) > 2 =>
          /\ exc = "SystemExit"
          /\ out = <<Line("incorrect_input", <<>>, <<>>, 0)>>

\* C12 witness: three names of existing snapshots that differ were given
\* together with --number
C12_Witness ==
    /\ argv.call = "compare_snapshots" /\ Len(argv.names) = 3 /\ self._number_only
    /\ \A i \in 1..3 : argv.names[i] \in store.snaps
    /\ listdir_root(store, dev) # listdir_root(store, master)

\* the words run() takes for a command or an option, not for a name
Words == {help, list, rm, dash_v, dash_version, number_flag}

\* C13: `mdiff <name>` calls create_snapshot(name) and `mdiff <name_1>
\* <name_2>` calls compare_snapshots(name_1, name_2), for all names that are
\* no command word
C13_Dispatch ==
    pc = "done" /\ argv.prog = "mdiff" /\ (\A i \in 1..Len(argv.args) : argv.args[i] \notin Words) =>
        /\ Len(argv.args) = 1 =>
              argv.call = "create_snapshot" /\ argv.names = argv.args
        /\ Len(argv.args) = 2 =>
              /\ argv.call = "compare_snapshots" /\ argv.names = argv.args
              /\ self.names = [i \in 1..2 |-> escape_characters(argv.args[i])]

\* C14: `mdiff rm <name_1> <name_2> ...` with names other than exactly
\* ('all',): every named snapshot is gone afterwards, every snapshot not
\* named is as it was, and one line is printed per name in the order given,
\* 'deleted' for a snapshot that was there and 'not found' for one that was
\* not, the names after it being handled all the same
C14_RemoveSpecific ==
    [][ /\ pc = "idle" /\ pc' = "done" /\ argv'.call = "remove_snapshots"
        /\ argv'.names # <<>> /\ argv'.names # <<all>>
        => LET names == argv'.names
               named == {escape_characters(names[i]) : i \in 1..Len(names)}
               there(i) == /\ escape_characters(names[i]) \in store.snaps
                           /\ \A j \in 1..(i - 1) : names[j] # names[i]
           IN  /\ store'.snaps = store.snaps \ named
               /\ \A c \in DOMAIN store.kind : c[1] \notin named => store'.kind[c] = store.kind[c]
               /\ \A x \in DOMAIN store.file : x[1] \notin named => store'.file[x] = store.file[x]
               /\ exc' = "none"
               /\ out' = <<Line("blank", <<>>, <<>>, 0)>>
                         \o [i \in 1..Len(names) |->
                               Line(IF there(i) THEN "deleted" ELSE "not_found",
                                    <<escape_characters(names[i])>>, <<>>, 0)]
      ]_vars

\* C14 witness: `mdiff rm master dev` found no master and deleted dev, which
\* had files
C14_Witness ==
    /\ pc = "done" /\ argv.call = "remove_snapshots"
    /\ out = << Line("blank", <<>>, <<>>, 0),
                Line("not_found", <<master>>, <<>>, 0),
                Line("deleted", <<dev>>, <<>>, 0) >>
    /\ store.snaps = {}

\* C15: within one run every read of the property `comparison` returns the
\* same report, which is the report the object holds and the one a single
\* computation gives, and no entry is in it twice, for an empty report and
\* for a non-empty one
C15_ComputedOnce ==
    /\ \A i, j \in 1..Len(reads) : reads[i] = reads[j]
    /\ reads # <<>> =>
          /\ reads[1] = Report
          /\ \E order \in Orders : Report = ReportOf(self.names, order)
    /\ \A d \in Seen : \A k \in 1..Len(d) : NoRepeat(d[k].files)
    /\ pc = "done" /\ exc = "none" /\ Len(self.names) = 2 =>
          Len(reads) = IF self._number_only \/ Report = <<>> THEN 1 ELSE 3

\* C15 witness: the table was printed after three reads, and a component
\* that only one snapshot has gave two entries
C15_Witness ==
    /\ TablePrinted /\ Len(reads) = 3
    /\ \E i \in 1..Len(Report) :
          /\ Len(Report[i].files) >= 2
          /\ ~path_exists(store, A, Report[i].app) \/ ~path_exists(store, B, Report[i].app)

\* C16: when create_snapshot(name) ends with "Can't find any migration" the
\* snapshots directory is as it was before the call: a snapshot of that name
\* is still there with its components and files, and no directory was made
C16_NothingFoundNothingChanged ==
    [][ /\ pc = "idle" /\ pc' = "done" /\ argv'.call = "create_snapshot"
        /\ out' = <<Line("cant_find", <<>>, <<>>, 0)>>
        => store' = store
      ]_vars

\* the recorded last check that check_new_version read is less than 24 hours
\* before now
Recent == check.last_check.valid /\ now - check.last_check.at < day

\* C17: check_new_version skips the request when the recorded last check is
\* less than 24 hours old, and otherwise (24 hours or more, or no valid
\* record) makes the request and records the time of this check
C17_DailyThrottle ==
    pc = "checked" /\ exc = "none" =>
        /\ Recent => ~check.queried
        /\ ~Recent => /\ check.queried
                       /\ last_check_file = [exists |-> TRUE, valid |-> TRUE, at |-> strftime(now)]

====
